---- MODULE Spec2Model ----
(***************************************************************************)
(* Model of src/src/engine/transaction_retry.rs: the sell workflow         *)
(* (execute_sell_with_retry_and_fallback), its retry loop                  *)
(* (execute_normal_sell_with_retry), the per-venue attempt, the Jupiter    *)
(* fallback and the status verifier (verify_transaction_with_retry).       *)
(* Time is counted in whole seconds.  External collaborators (builders,    *)
(* blockhash cache, submission transport, status RPC, balance RPC,         *)
(* aggregator) answer nondeterministically; the chain decides the fate of  *)
(* every broadcast transaction on its own schedule.                        *)
(***************************************************************************)
EXTENDS Integers, Sequences, FiniteSets, TLC

(* ------------------------------ constants ------------------------------ *)

MAX_RETRIES == 3

RETRY_DELAY == 2

VERIFICATION_TIMEOUT == 30

VERIFY_SLEEP == 1

NORMAL_VERIFY_RETRIES == 5

JUPITER_VERIFY_RETRIES == 5

(* ------------------------------- bounds -------------------------------- *)

\* longest time (s) one status query may take to answer
MaxLatency == 16

\* largest max_retries an outside caller of the verifier passes
MaxRetriesArg == 6

\* largest holding balance the balance query reports
MaxBalance == 1

\* sell_config.amount_in is a multiple of 1 / 2^AmountBits
AmountBits == 2

\* binary digits a float's significand keeps (an f64 keeps 53)
MantissaBits == 4

Latencies == {0, MaxLatency}

AmountUnit == 2 ^ AmountBits

\* sell_config.amount_in, in units of 1 / AmountUnit: 0.0 up to above 1.0
AmountIns == 0..(AmountUnit + 1)

\* balances the amount computation is run on: up to twice the largest
\* integer below which every integer is a float
Holdings == 1..(2 ^ (MantissaBits + 1))

\* one transaction per venue attempt plus the aggregator's
TxIds == 1..(MAX_RETRIES + 1)

DexTypes == {"PumpFun", "PumpSwap", "RaydiumLaunchpad", "Other"}

\* what get_signature_statuses can answer:
\*   "ok"        Ok, value[0] = Some(status), status.err = None
\*   "err"       Ok, value[0] = Some(status), status.err = Some(_)
\*   "none"      Ok, value[0] = None (status not known yet)
\*   "empty"     Ok, value is empty (value.get(0) = None)
\*   "rpc_error" Err(_)
Responses == {"ok", "err", "none", "empty", "rpc_error"}

VARIABLES
    entry,          \* which public function was called: "sell" or "verify"
    dex,            \* trade_info.dex_type
    pc,             \* position of the workflow
    attempt,        \* loop variable of execute_normal_sell_with_retry
    last_error,     \* last_error of execute_normal_sell_with_retry
    normal_result,  \* what execute_normal_sell_with_retry returned
    jup_result,     \* what execute_jupiter_fallback_sell returned
    result,         \* what execute_sell_with_retry_and_fallback returned
    caller,         \* who called the verifier: "normal", "jupiter", "external"
    sig,            \* signature being verified
    v_max,          \* max_retries of the running verify call
    v_attempt,      \* loop variable of verify_transaction_with_retry
    elapsed,        \* start_time.elapsed() of the running verify call
    v_ret,          \* what the verify call returned
    chain,          \* on-chain fate of every transaction
    ntx,            \* number of transactions broadcast so far
    balance,        \* token balance read by the fallback
    amount_in,      \* sell_config.amount_in the amount computation is run on
    amount_to_sell, \* amount the fallback asks the aggregator to sell
    calls,          \* log of calls to the external collaborators
    v_obs,          \* log of the running verify call
    tx_hist,        \* per transaction: attempt that sent it, verdicts on it
    attempt_errors  \* the failure that ended the latest rejected attempt

vars == <<entry, dex, pc, attempt, last_error, normal_result, jup_result,
          result, caller, sig, v_max, v_attempt, elapsed, v_ret, chain, ntx,
          balance, amount_in, amount_to_sell, calls, v_obs, tx_hist, attempt_errors>>

(* ------------------------------- values -------------------------------- *)

\* Option<T>: None is the empty set, Some(x) the singleton
None == {}

Some(x) == {x}

NoReturn == [tag |-> "pending"]

\* an error text: its kind, and the signature it quotes (if any)
ErrText(kind, s) == [kind |-> kind, sig |-> s]

\* String::new()
EmptyText == ErrText("", None)

\* SellTransactionResult { .. }
SellTransactionResult(success, signature, error, jupiter, count) ==
    [tag |-> "Ok", success |-> success, signature |-> signature,
     error |-> error, used_jupiter_fallback |-> jupiter,
     attempt_count |-> count]

NoVerifyObs == [queries |-> 0, slept |-> 0, last |-> "", definite |-> FALSE]

NoCalls == [builds |-> 0, blockhashes |-> 0, sends |-> 0, delays |-> 0,
            delay_time |-> 0, balance_queries |-> 0, aggregator |-> 0,
            builders |-> {}, landings |-> {}, steps |-> <<>>]

\* no attempt rejected yet
NoAttemptLog == [attempt |-> 0, error |-> [kind |-> "", sig |-> {}]]

NoTxHist == [t \in TxIds |-> [attempt |-> 0, ok_seen |-> FALSE,
                              verdict |-> "none"]]

(* --------------------------- initial states ---------------------------- *)

\* the venue of the trade the workflow is run for
SellVenues == {"PumpFun"}

Init ==
    /\ entry \in {"sell", "verify"}
    /\ dex \in SellVenues
    /\ pc = "start"
    /\ attempt = 0
    /\ last_error = EmptyText
    /\ normal_result = NoReturn
    /\ jup_result = NoReturn
    /\ result = NoReturn
    /\ caller = (IF entry = "sell" THEN "normal" ELSE "external")
    /\ sig = 1
    /\ v_max \in (IF entry = "sell" THEN {0} ELSE 0..MaxRetriesArg)
    /\ v_attempt = 0
    /\ elapsed = 0
    /\ v_ret = NoReturn
    \* the verifier's outside caller passes the signature of a transaction
    \* that was broadcast before the call
    /\ chain = [t \in TxIds |->
                  IF entry = "verify" /\ t = 1 THEN "pending" ELSE "unsent"]
    /\ ntx = (IF entry = "sell" THEN 0 ELSE 1)
    /\ balance = 0
    \* the workflow draws sell_config.amount_in where it reads it, in
    \* JupiterBalance, and keeps only the amount computed from it
    /\ amount_in = 0
    /\ amount_to_sell = 0
    /\ calls = NoCalls
    /\ v_obs = NoVerifyObs
    /\ tx_hist = NoTxHist
    /\ attempt_errors = NoAttemptLog

\* The sell workflow run for a trade of any venue.
InitVenues ==
    /\ entry = "sell"
    /\ dex \in DexTypes
    /\ pc = "start"
    /\ attempt = 0
    /\ last_error = EmptyText
    /\ normal_result = NoReturn
    /\ jup_result = NoReturn
    /\ result = NoReturn
    /\ caller = "normal"
    /\ sig = 1
    /\ v_max = 0
    /\ v_attempt = 0
    /\ elapsed = 0
    /\ v_ret = NoReturn
    /\ chain = [t \in TxIds |-> "unsent"]
    /\ ntx = 0
    /\ balance = 0
    /\ amount_in = 0
    /\ amount_to_sell = 0
    /\ calls = NoCalls
    /\ v_obs = NoVerifyObs
    /\ tx_hist = NoTxHist
    /\ attempt_errors = NoAttemptLog

\* The amount computation of the fallback run on its own: a balance that
\* passed the zero-balance guard and an amount_in.
InitAmount ==
    /\ entry = "amount"
    /\ dex \in SellVenues
    /\ pc = "amount"
    /\ attempt = 0
    /\ last_error = EmptyText
    /\ normal_result = NoReturn
    /\ jup_result = NoReturn
    /\ result = NoReturn
    /\ caller = "normal"
    /\ sig = 1
    /\ v_max = 0
    /\ v_attempt = 0
    /\ elapsed = 0
    /\ v_ret = NoReturn
    /\ chain = [t \in TxIds |-> "unsent"]
    /\ ntx = 0
    /\ balance \in Holdings
    /\ amount_in \in AmountIns
    /\ amount_to_sell = 0
    /\ calls = NoCalls
    /\ v_obs = NoVerifyObs
    /\ tx_hist = NoTxHist
    /\ attempt_errors = NoAttemptLog

(* ------------------------------ the chain ------------------------------ *)

\* The network settles a broadcast transaction, whenever it gets to it.
\* A transaction that fails on chain after the workflow has stopped asking
\* about it is left "pending": nothing tells the two apart any more.
ChainProgress ==
    /\ \E t \in TxIds, fate \in {"confirmed", "failed"} :
          /\ chain[t] = "pending"
          /\ fate = "failed" => (t = sig /\ pc \in {"v_loop", "v_sleep"})
          /\ chain' = [chain EXCEPT ![t] = fate]
    /\ UNCHANGED <<entry, dex, pc, attempt, last_error, normal_result,
                   jup_result, result, caller, sig, v_max, v_attempt, elapsed,
                   v_ret, ntx, balance, amount_in, amount_to_sell, calls, v_obs, tx_hist, attempt_errors>>

\* What a status query for s can answer now: a definite status only if the
\* chain has settled the transaction that way; "not known" and transport
\* errors at any time.
StatusAnswers(s) ==
    {"none", "empty", "rpc_error"}
        \cup (IF chain[s] = "confirmed" THEN {"ok"} ELSE {})
        \cup (IF chain[s] = "failed" THEN {"err"} ELSE {})

(* ---------------------------- the verifier ----------------------------- *)

\* mutant: the elapsed time is never checked
TimedOut_Never(e) == FALSE

\* start_time.elapsed() > VERIFICATION_TIMEOUT
TimedOut(e) == e > VERIFICATION_TIMEOUT

\* mutant: a status that is not known yet counts as confirmed
Classify_UnknownIsTrue(resp) ==
    CASE resp \in {"ok", "none"} -> "true"
      [] resp = "err" -> "false"
      [] OTHER -> "unknown"

\* mutant: a confirmed status does not end the polling
Classify_OkIgnored(resp) ==
    CASE resp = "err" -> "false"
      [] OTHER -> "unknown"

\* mutant: an on-chain error is polled again
Classify_ErrRetried(resp) ==
    CASE resp = "ok" -> "true"
      [] OTHER -> "unknown"

\* the nested matches on the query's answer: "true" and "false" are the
\* returns inside the match, "unknown" falls through to the sleep
Classify(resp) ==
    CASE resp = "ok" -> "true"
      [] resp = "err" -> "false"
      [] OTHER -> "unknown"

\* mutant: the loop polls again without sleeping
SleepsAfter_Never(a, m) == FALSE

\* if attempt < max_retries { sleep(1000ms) }
SleepsAfter(a, m) == a < m

\* let start_time = Instant::now(); for attempt in 1..=max_retries
BeginVerify(s, m, who) ==
    /\ sig' = s
    /\ v_max' = m
    /\ caller' = who
    /\ v_attempt' = 1
    /\ elapsed' = 0
    /\ v_ret' = NoReturn
    /\ v_obs' = NoVerifyObs
    /\ pc' = "v_loop"

\* return Ok(value)
VerifyReturn(value, seen_ok) ==
    /\ v_ret' = [tag |-> "Ok", value |-> value]
    /\ tx_hist' = [tx_hist EXCEPT
                     ![sig].verdict = IF value THEN "true" ELSE "false",
                     ![sig].ok_seen = @ \/ seen_ok]
    /\ pc' = "v_done"

\* the caller has taken the return value: the call's locals are gone
EndVerify ==
    /\ v_attempt' = 0
    /\ elapsed' = 0
    /\ v_ret' = NoReturn
    /\ v_obs' = NoVerifyObs

\* verify_transaction_with_retry called from outside this module
StartVerify ==
    /\ pc = "start"
    /\ entry = "verify"
    /\ BeginVerify(1, v_max, "external")
    /\ UNCHANGED <<entry, dex, attempt, last_error, normal_result, jup_result,
                   result, chain, ntx, balance, amount_in, amount_to_sell, calls, tx_hist,
                   attempt_errors>>

\* One iteration of the polling loop up to its sleep: the timeout check,
\* the status query and the match on its answer.
VerifyIter ==
    /\ pc = "v_loop"
    /\ IF v_attempt > v_max
       THEN \* the range 1..=max_retries is empty
            /\ VerifyReturn(FALSE, FALSE)
            /\ UNCHANGED <<v_attempt, elapsed, v_obs>>
       ELSE IF TimedOut(elapsed)
       THEN /\ VerifyReturn(FALSE, FALSE)
            /\ UNCHANGED <<v_attempt, elapsed, v_obs>>
       ELSE \E lat \in Latencies, resp \in StatusAnswers(sig) :
            /\ elapsed' = elapsed + lat
            /\ v_obs' = [v_obs EXCEPT !.queries = @ + 1,
                                      !.last = resp,
                                      !.definite = @ \/ resp \in {"ok", "err"}]
            /\ CASE Classify(resp) = "true" ->
                      /\ VerifyReturn(TRUE, resp = "ok")
                      /\ UNCHANGED v_attempt
                 [] Classify(resp) = "false" ->
                      /\ VerifyReturn(FALSE, resp = "ok")
                      /\ UNCHANGED v_attempt
                 [] OTHER ->
                      IF SleepsAfter(v_attempt, v_max)
                      THEN /\ pc' = "v_sleep"
                           /\ tx_hist' = [tx_hist EXCEPT
                                            ![sig].ok_seen = @ \/ resp = "ok"]
                           /\ UNCHANGED <<v_attempt, v_ret>>
                      ELSE IF v_attempt < v_max
                      THEN \* no sleep, straight to the next iteration
                           /\ pc' = "v_loop"
                           /\ v_attempt' = v_attempt + 1
                           /\ tx_hist' = [tx_hist EXCEPT
                                            ![sig].ok_seen = @ \/ resp = "ok"]
                           /\ UNCHANGED v_ret
                      ELSE \* last iteration: the loop ends, Ok(false)
                           /\ VerifyReturn(FALSE, resp = "ok")
                           /\ UNCHANGED v_attempt
    /\ UNCHANGED <<entry, dex, attempt, last_error, normal_result, jup_result,
                   result, caller, sig, v_max, chain, ntx, balance, amount_in, amount_to_sell, calls,
                   attempt_errors>>

\* sleep(Duration::from_millis(1000)).await, then the next iteration
VerifySleep ==
    /\ pc = "v_sleep"
    /\ elapsed' = elapsed + VERIFY_SLEEP
    /\ v_obs' = [v_obs EXCEPT !.slept = @ + VERIFY_SLEEP]
    /\ v_attempt' = v_attempt + 1
    /\ pc' = "v_loop"
    /\ UNCHANGED <<entry, dex, attempt, last_error, normal_result, jup_result,
                   result, caller, sig, v_max, v_ret, chain, ntx, balance, amount_in, amount_to_sell,
                   calls, tx_hist, attempt_errors>>

(* ------------------------- one venue attempt --------------------------- *)

\* mutant: an unknown venue is sent to the PumpSwap builder
Builder_DefaultsToPumpSwap(d) ==
    CASE d = "PumpFun" -> "pump_fun"
      [] d = "PumpSwap" -> "pump_swap"
      [] d = "RaydiumLaunchpad" -> "raydium_launchpad"
      [] OTHER -> "pump_swap"

\* execute_single_sell_attempt: the builder chosen for a venue
Builder(d) ==
    CASE d = "PumpFun" -> "pump_fun"
      [] d = "PumpSwap" -> "pump_swap"
      [] d = "RaydiumLaunchpad" -> "raydium_launchpad"
      [] OTHER -> "pump_fun"

\* the submission the chosen execute_*_sell_attempt uses
Landing(d) ==
    CASE Builder(d) = "raydium_launchpad" -> "zeroslot"
      [] OTHER -> "normal"

\* an identifier string as the transport returns it: the encoding of a
\* transaction's signature, or something that is no signature
Encode(t) == [text |-> "base58", of |-> t]

Malformed == [text |-> "garbage", of |-> 0]

\* str::parse::<Signature>()
ParseSignature(str) ==
    IF str.text = "base58" /\ str.of \in TxIds
    THEN [tag |-> "Ok", value |-> str.of]
    ELSE [tag |-> "Err"]

\* mutant: the first failure is kept
NextLastError_KeepsFirst(old, new) == IF old = EmptyText THEN new ELSE old

\* last_error = <the new text>
NextLastError(old, new) == new

\* Err(anyhow!("Normal sell failed after {} attempts. Last error: {}", ..))
NormalError(n, text) == [tag |-> "Err", attempts |-> n, last |-> text]

\* mutant: the loop pauses after its last attempt too
DelaysAfter_Always(a) == TRUE

\* if attempt < MAX_RETRIES { sleep(RETRY_DELAY) }
DelaysAfter(a) == a < MAX_RETRIES

\* mutant: the loop gives up one attempt early
NextAttempt_StopsEarly(text) ==
    IF attempt < MAX_RETRIES - 1
    THEN /\ attempt' = attempt + 1
         /\ pc' = "build"
         /\ UNCHANGED normal_result
    ELSE /\ pc' = "n_returned"
         /\ normal_result' = NormalError(MAX_RETRIES, text)
         /\ UNCHANGED attempt

\* The end of the loop body: the next attempt or, after the last one, the
\* aggregated error.
NextAttempt(text) ==
    IF attempt < MAX_RETRIES
    THEN /\ attempt' = attempt + 1
         /\ pc' = "build"
         /\ UNCHANGED normal_result
    ELSE /\ pc' = "n_returned"
         /\ normal_result' = NormalError(MAX_RETRIES, text)
         /\ UNCHANGED attempt

\* An attempt was rejected: record the text, log it, then pause before the
\* next attempt unless this was the last one.
AttemptFailed(text) ==
    /\ last_error' = NextLastError(last_error, text)
    /\ attempt_errors' = [attempt |-> attempt, error |-> text]
    /\ IF DelaysAfter(attempt)
       THEN /\ pc' = "retry_delay"
            /\ UNCHANGED <<attempt, normal_result>>
       ELSE NextAttempt(NextLastError(last_error, text))

\* execute_sell_with_retry_and_fallback is called; the retry loop starts
StartSell ==
    /\ pc = "start"
    /\ entry = "sell"
    /\ attempt' = 1
    /\ last_error' = EmptyText
    /\ pc' = "build"
    /\ UNCHANGED <<entry, dex, normal_result, jup_result, result, caller, sig,
                   v_max, v_attempt, elapsed, v_ret, chain, ntx, balance, amount_in, amount_to_sell,
                   calls, v_obs, tx_hist, attempt_errors>>

\* mutant: a build error is recorded but the attempt goes on
Build_GoesOnAfterError ==
    /\ pc = "build"
    /\ calls' = [calls EXCEPT !.builds = @ + 1,
                              !.builders = @ \cup {Builder(dex)},
                              !.steps = <<"build">>]
    /\ \E built \in BOOLEAN :
          IF built
          THEN UNCHANGED <<last_error, attempt_errors>>
          ELSE /\ last_error' = ErrText("build_failed", None)
               /\ attempt_errors' =
                     [attempt |-> attempt,
                      error |-> ErrText("build_failed", None)]
    /\ pc' = "blockhash"
    /\ UNCHANGED <<entry, dex, attempt, normal_result, jup_result, result,
                   caller, sig, v_max, v_attempt, elapsed, v_ret, chain, ntx,
                   balance, amount_in, amount_to_sell, v_obs, tx_hist>>

\* <venue>.build_swap_from_parsed_data(trade_info, sell_config)
Build ==
    /\ pc = "build"
    /\ calls' = [calls EXCEPT !.builds = @ + 1,
                              !.builders = @ \cup {Builder(dex)},
                              !.steps = <<"build">>]
    /\ \E built \in BOOLEAN :
          IF built
          THEN /\ pc' = "blockhash"
               /\ UNCHANGED <<attempt, last_error, attempt_errors,
                              normal_result>>
          ELSE AttemptFailed(ErrText("build_failed", None))
    /\ UNCHANGED <<entry, dex, jup_result, result, caller, sig, v_max,
                   v_attempt, elapsed, v_ret, chain, ntx, balance, amount_in, amount_to_sell, v_obs,
                   tx_hist>>

\* BlockhashProcessor::get_latest_blockhash()
Blockhash ==
    /\ pc = "blockhash"
    /\ calls' = [calls EXCEPT !.blockhashes = @ + 1,
                              !.steps = Append(@, "blockhash")]
    /\ \E available \in BOOLEAN :
          IF available
          THEN /\ pc' = "send"
               /\ UNCHANGED <<attempt, last_error, attempt_errors,
                              normal_result>>
          ELSE AttemptFailed(ErrText("no_blockhash", None))
    /\ UNCHANGED <<entry, dex, jup_result, result, caller, sig, v_max,
                   v_attempt, elapsed, v_ret, chain, ntx, balance, amount_in, amount_to_sell, v_obs,
                   tx_hist>>

\* the call log after a submission and the steps that followed it
Sent(steps) ==
    [calls EXCEPT !.sends = @ + 1,
                  !.landings = @ \cup {Landing(dex)},
                  !.steps = @ \o steps]

\* new_signed_and_send_*: the transport fails, returns no identifier, or
\* has broadcast a transaction and returns its identifier (well-formed or
\* not); then the first identifier is parsed and, if it parses, verified.
Send ==
    /\ pc = "send"
    /\ \E out \in {"error", "empty", "malformed", "ok"} :
          CASE out = "error" ->
                 /\ calls' = Sent(<<"send">>)
                 /\ AttemptFailed(ErrText("send_failed", None))
                 /\ UNCHANGED <<chain, ntx, tx_hist, sig, v_max, caller,
                                v_attempt, elapsed, v_ret, v_obs>>
            [] out = "empty" ->
                 /\ calls' = Sent(<<"send">>)
                 /\ AttemptFailed(ErrText("no_signature_returned", None))
                 /\ UNCHANGED <<chain, ntx, tx_hist, sig, v_max, caller,
                                v_attempt, elapsed, v_ret, v_obs>>
            [] OTHER ->
                 LET t == ntx + 1
                     str == IF out = "ok" THEN Encode(t) ELSE Malformed
                     parsed == ParseSignature(str)
                 IN  /\ ntx' = t
                     /\ chain' = [chain EXCEPT ![t] = "pending"]
                     /\ tx_hist' = [tx_hist EXCEPT ![t].attempt = attempt]
                     /\ IF parsed.tag = "Ok"
                        THEN /\ calls' = Sent(<<"send", "parse", "verify">>)
                             /\ BeginVerify(parsed.value,
                                            NORMAL_VERIFY_RETRIES, "normal")
                             /\ UNCHANGED <<attempt, last_error,
                                            attempt_errors, normal_result>>
                        ELSE /\ calls' = Sent(<<"send", "parse">>)
                             /\ AttemptFailed(ErrText("parse_failed", None))
                             /\ UNCHANGED <<sig, v_max, caller, v_attempt,
                                            elapsed, v_ret, v_obs>>
    /\ UNCHANGED <<entry, dex, jup_result, result, balance, amount_in, amount_to_sell>>

\* mutant: the attempt is counted from zero
NormalSuccess_ZeroBased(s, a) ==
    SellTransactionResult(TRUE, Some(s), None, FALSE, a - 1)

\* SellTransactionResult of a confirmed venue attempt
NormalSuccess(s, a) ==
    SellTransactionResult(TRUE, Some(s), None, FALSE, a)

\* match verify_transaction_with_retry(..) in the retry loop
AfterVerifyNormal ==
    /\ pc = "v_done"
    /\ caller = "normal"
    /\ IF v_ret.value
       THEN /\ normal_result' = NormalSuccess(sig, attempt)
            /\ pc' = "n_returned"
            /\ UNCHANGED <<attempt, last_error, attempt_errors>>
       ELSE \* verify returns no Err, so the Err arm is never taken
            AttemptFailed(ErrText("verification_failed", Some(sig)))
    /\ EndVerify
    /\ UNCHANGED <<entry, dex, jup_result, result, caller, sig, v_max, chain,
                   ntx, balance, amount_in, amount_to_sell, calls, tx_hist>>

\* sleep(RETRY_DELAY).await, then the next attempt
RetryDelay ==
    /\ pc = "retry_delay"
    /\ calls' = [calls EXCEPT !.delays = @ + 1,
                              !.delay_time = @ + RETRY_DELAY]
    /\ NextAttempt(last_error)
    /\ UNCHANGED <<entry, dex, last_error, jup_result, result, caller, sig,
                   v_max, v_attempt, elapsed, v_ret, chain, ntx, balance, amount_in, amount_to_sell,
                   v_obs, tx_hist, attempt_errors>>

(* ----------------------- the aggregator fallback ----------------------- *)

\* Err(anyhow!(..)) of execute_jupiter_fallback_sell
JupiterFailed(kind) ==
    /\ jup_result' = [tag |-> "Err", error |-> ErrText(kind, None)]
    /\ pc' = "j_returned"

\* mutant: the early return of a successful retry path is missing
NormalSucceeded_Never(r) == FALSE

\* Ok(result) => if result.success
NormalSucceeded(r) == r.tag = "Ok" /\ r.success

\* match execute_normal_sell_with_retry(..): a successful outcome is
\* returned as it is; an unsuccessful one or an Err goes on to the fallback
AfterNormal ==
    /\ pc = "n_returned"
    /\ IF NormalSucceeded(normal_result)
       THEN /\ result' = normal_result
            /\ pc' = "done"
       ELSE /\ pc' = "j_resolve"
            /\ UNCHANGED result
    /\ UNCHANGED <<entry, dex, attempt, last_error, normal_result, jup_result,
                   caller, sig, v_max, v_attempt, elapsed, v_ret, chain, ntx,
                   balance, amount_in, amount_to_sell, calls, v_obs, tx_hist, attempt_errors>>

\* wallet.try_pubkey(), mint.parse::<Pubkey>(), the associated account
JupiterResolve ==
    /\ pc = "j_resolve"
    /\ \E out \in {"ok", "wallet_pubkey_failed", "invalid_mint"} :
          IF out = "ok"
          THEN /\ pc' = "j_balance"
               /\ UNCHANGED jup_result
          ELSE JupiterFailed(out)
    /\ UNCHANGED <<entry, dex, attempt, last_error, normal_result, result,
                   caller, sig, v_max, v_attempt, elapsed, v_ret, chain, ntx,
                   balance, amount_in, amount_to_sell, calls, v_obs, tx_hist, attempt_errors>>

\* number of binary digits of n
RECURSIVE BitLength(_)
BitLength(n) == IF n = 0 THEN 0 ELSE 1 + BitLength(n \div 2)

\* The float nearest to the integer n: n keeps its MantissaBits leading
\* binary digits, rounded to nearest with ties to the even significand.
\* This is `as f64` of an integer and, applied to the numerator of a product
\* whose denominator is a power of two, the rounding of the product.
ToFloat(n) ==
    LET e == BitLength(n) - MantissaBits
    IN  IF e <= 0
        THEN n
        ELSE LET u == 2 ^ e
                 q == n \div u
                 r == n % u
             IN  IF 2 * r < u \/ (2 * r = u /\ q % 2 = 0)
                 THEN q * u
                 ELSE (q + 1) * u

\* if amount_in >= 1.0 { token_amount }
\* else { ((token_amount as f64) * amount_in) as u64 }
\* with amount_in = a / AmountUnit: the balance is rounded to a float, the
\* product is rounded to a float, and the cast truncates it
AmountToSell(token_amount, a) ==
    IF a >= AmountUnit
    THEN token_amount
    ELSE ToFloat(ToFloat(token_amount) * a) \div AmountUnit

\* mutant: the zero-balance guard is missing
NoTokens_Never(token_amount) == FALSE

\* if token_amount == 0
NoTokens(token_amount) == token_amount = 0

\* get_token_account(&ata), the amount's parse, the zero-balance guard and
\* the amount to sell; sell_config.amount_in is read here for the first time
JupiterBalance ==
    /\ pc = "j_balance"
    /\ calls' = [calls EXCEPT !.balance_queries = @ + 1]
    /\ \E out \in {"ok", "token_account_failed", "token_account_not_found",
                   "amount_parse_failed"} :
          IF out = "ok"
          THEN \E b \in 0..MaxBalance, a \in AmountIns :
                  /\ balance' = b
                  /\ IF NoTokens(b)
                     THEN /\ JupiterFailed("no_tokens_to_sell")
                          /\ UNCHANGED amount_to_sell
                     ELSE /\ amount_to_sell' = AmountToSell(b, a)
                          /\ pc' = "j_sell"
                          /\ UNCHANGED jup_result
          ELSE /\ JupiterFailed(out)
               /\ UNCHANGED <<balance, amount_in, amount_to_sell>>
    /\ UNCHANGED <<entry, dex, attempt, last_error, normal_result, result,
                   caller, sig, v_max, v_attempt, elapsed, v_ret, chain, ntx,
                   amount_in, v_obs, tx_hist, attempt_errors>>

\* jupiter_client.sell_token(..): the aggregator fails, or has broadcast a
\* transaction and returns its identifier, which is parsed and verified
JupiterSell ==
    /\ pc = "j_sell"
    /\ calls' = [calls EXCEPT !.aggregator = @ + 1]
    /\ \E out \in {"error", "malformed", "ok"} :
          IF out = "error"
          THEN /\ JupiterFailed("jupiter_sell_failed")
               /\ UNCHANGED <<chain, ntx, tx_hist, sig, v_max, caller,
                              v_attempt, elapsed, v_ret, v_obs>>
          ELSE LET t == ntx + 1
                   str == IF out = "ok" THEN Encode(t) ELSE Malformed
                   parsed == ParseSignature(str)
               IN  /\ ntx' = t
                   /\ chain' = [chain EXCEPT ![t] = "pending"]
                   /\ tx_hist' = [tx_hist EXCEPT
                                    ![t].attempt = MAX_RETRIES + 1]
                   /\ IF parsed.tag = "Ok"
                      THEN /\ BeginVerify(parsed.value,
                                          JUPITER_VERIFY_RETRIES, "jupiter")
                           /\ UNCHANGED jup_result
                      ELSE /\ JupiterFailed("parse_failed")
                           /\ UNCHANGED <<sig, v_max, caller, v_attempt,
                                          elapsed, v_ret, v_obs>>
    /\ UNCHANGED <<entry, dex, attempt, last_error, normal_result, result,
                   balance, amount_in, amount_to_sell, attempt_errors>>

\* match verify_transaction_with_retry(..) in the fallback
AfterVerifyJupiter ==
    /\ pc = "v_done"
    /\ caller = "jupiter"
    /\ IF v_ret.value
       THEN /\ jup_result' = [tag |-> "Ok", value |-> sig]
            /\ pc' = "j_returned"
       ELSE JupiterFailed("jupiter_verification_failed")
    /\ EndVerify
    /\ UNCHANGED <<entry, dex, attempt, last_error, normal_result, result,
                   caller, sig, v_max, chain, ntx, balance, amount_in, amount_to_sell, calls, tx_hist,
                   attempt_errors>>

\* mutant: the fallback is not counted as an attempt of its own
FallbackSuccess_NotCounted(s) ==
    SellTransactionResult(TRUE, Some(s), None, TRUE, MAX_RETRIES)

\* SellTransactionResult of a confirmed fallback sale
FallbackSuccess(s) ==
    SellTransactionResult(TRUE, Some(s), None, TRUE, MAX_RETRIES + 1)

\* mutant: the failed fallback's error is dropped
FallbackFailure_NoError(e) ==
    SellTransactionResult(FALSE, None, None, TRUE, MAX_RETRIES + 1)

\* mutant: the outcome reports the retry loop's last error
FallbackFailure_NormalError(e) ==
    SellTransactionResult(FALSE, None,
                          Some([kind |-> "all_sell_attempts_failed",
                                last |-> last_error]),
                          TRUE, MAX_RETRIES + 1)

\* SellTransactionResult of a failed fallback:
\* "All sell attempts failed. Last error: {e}"
FallbackFailure(e) ==
    SellTransactionResult(FALSE, None,
                          Some([kind |-> "all_sell_attempts_failed",
                                last |-> e]),
                          TRUE, MAX_RETRIES + 1)

\* mutant: the fallback's error is passed on to the caller
Outcome_Propagates(r) ==
    IF r.tag = "Ok"
    THEN FallbackSuccess(r.value)
    ELSE [tag |-> "Err", error |-> r.error]

\* what the entry point makes of the fallback's return
Outcome(r) ==
    IF r.tag = "Ok" THEN FallbackSuccess(r.value) ELSE FallbackFailure(r.error)

\* match execute_jupiter_fallback_sell(..)
AfterJupiter ==
    /\ pc = "j_returned"
    /\ result' = Outcome(jup_result)
    /\ pc' = "done"
    /\ UNCHANGED <<entry, dex, attempt, last_error, normal_result, jup_result,
                   caller, sig, v_max, v_attempt, elapsed, v_ret, chain, ntx,
                   balance, amount_in, amount_to_sell, calls, v_obs, tx_hist, attempt_errors>>

(* --------------------------- specification ----------------------------- *)

Next ==
    \/ StartVerify
    \/ VerifyIter
    \/ VerifySleep
    \/ StartSell
    \/ Build
    \/ Blockhash
    \/ Send
    \/ AfterVerifyNormal
    \/ RetryDelay
    \/ AfterNormal
    \/ JupiterResolve
    \/ JupiterBalance
    \/ JupiterSell
    \/ AfterVerifyJupiter
    \/ AfterJupiter
    \/ ChainProgress

Spec == Init /\ [][Next]_vars

\* the steps of the program itself: every one of them is an await that
\* returns or a computation
Program ==
    \/ StartSell
    \/ StartVerify
    \/ Build
    \/ Blockhash
    \/ Send
    \/ VerifyIter
    \/ VerifySleep
    \/ AfterVerifyNormal
    \/ RetryDelay
    \/ AfterNormal
    \/ JupiterResolve
    \/ JupiterBalance
    \/ JupiterSell
    \/ AfterVerifyJupiter
    \/ AfterJupiter

\* every external call returns and the runtime goes on polling the future:
\* a step of the program that can be taken is taken in the end
FairSpec == Spec /\ WF_vars(Program)

\* the steps of execute_sell_with_retry_and_fallback and of the chain
NextVenues ==
    \/ StartSell
    \/ Build
    \/ Blockhash
    \/ Send
    \/ VerifyIter
    \/ VerifySleep
    \/ AfterVerifyNormal
    \/ RetryDelay
    \/ AfterNormal
    \/ JupiterResolve
    \/ JupiterBalance
    \/ JupiterSell
    \/ AfterVerifyJupiter
    \/ AfterJupiter
    \/ ChainProgress

\* the sell workflow on every venue
SpecVenues == InitVenues /\ [][NextVenues]_vars

\* let amount_to_sell = if .. { token_amount } else { .. }
ComputeAmount ==
    /\ pc = "amount"
    /\ amount_to_sell' = AmountToSell(balance, amount_in)
    /\ pc' = "amount_done"
    /\ UNCHANGED <<entry, dex, attempt, last_error, normal_result, jup_result,
                   result, caller, sig, v_max, v_attempt, elapsed, v_ret,
                   chain, ntx, balance, amount_in, calls, v_obs, tx_hist,
                   attempt_errors>>

NextAmount == ComputeAmount

\* the amount computation alone, on every balance and amount_in
SpecAmount == InitAmount /\ [][NextAmount]_vars

(* ------------------------------- claims -------------------------------- *)

\* success == true implies a signature, success == false implies an error
WellFormed(r) ==
    r.tag = "Ok" =>
        /\ r.success => r.signature # None
        /\ ~r.success => r.error # None

\* C1: every SellTransactionResult returned by the entry point, and every Ok
\* result of the retry loop, has a signature when success is true and an
\* error when success is false.
C1_OutcomeWellFormed ==
    /\ WellFormed(result)
    /\ WellFormed(normal_result)

C1_Witness ==
    /\ pc = "done"
    /\ entry = "sell"
    /\ result.tag = "Ok"
    /\ ~result.success
    /\ result.error # None
    /\ result.signature = None

\* C2: the entry point never returns Err: once it has returned, the result
\* is an Ok(SellTransactionResult), a failure of both paths is encoded as
\* success == false, and the result is set once and never changed.
C2_NeverHardError ==
    /\ [](pc = "done" /\ entry = "sell" =>
            /\ result.tag = "Ok"
            /\ jup_result.tag = "Err" => ~result.success)
    /\ [][result # NoReturn => result' = result]_vars

C2_Witness ==
    /\ pc = "done"
    /\ normal_result.tag = "Err"
    /\ jup_result.tag = "Err"
    /\ result.tag = "Ok"
    /\ result.used_jupiter_fallback

\* the transactions of this workflow that the chain has confirmed, among
\* those whose signature the workflow got and verified
Confirmed ==
    {t \in TxIds : chain[t] = "confirmed" /\ tx_hist[t].verdict # "none"}

\* C3: no two transactions broadcast by one sell workflow both end up
\* confirmed on chain (stated here of the transactions the workflow ran
\* its verification on).
C3_NoDoubleSell ==
    entry = "sell" => Cardinality(Confirmed) <= 1

\* C4: a successful outcome carries the signature of the transaction sent in
\* the reported attempt, a status query for that signature answered with a
\* definite status without error, and the verifier said true of it; no
\* transaction the verifier said false of is reported as the success.
C4_NoFalsePositive ==
    (result.tag = "Ok" /\ result.success) =>
        /\ \E t \in TxIds :
              /\ result.signature = Some(t)
              /\ chain[t] # "unsent"
              /\ tx_hist[t].attempt = result.attempt_count
              /\ tx_hist[t].ok_seen
              /\ tx_hist[t].verdict = "true"
        /\ \A t \in TxIds :
              tx_hist[t].verdict = "false" => result.signature # Some(t)

C4_Witness ==
    /\ pc = "done"
    /\ result.tag = "Ok"
    /\ result.success
    /\ result.used_jupiter_fallback
    /\ tx_hist[1].verdict = "false"
    /\ result.signature = Some(2)

\* the sleeps of a verify call that has polled n times and goes on no more:
\* one between every two consecutive polls
GapsSlept(n) == IF n = 0 THEN 0 ELSE (n - 1) * 1

\* C5: a poll answered with a definite status without error ends the verify
\* call at once with true: no sleep and no query follows it, and when it is
\* the first poll exactly one query was issued.
C5_FastPathConfirm ==
    v_obs.last = "ok" =>
        /\ pc = "v_done"
        /\ v_ret = [tag |-> "Ok", value |-> TRUE]
        /\ v_obs.slept = GapsSlept(v_obs.queries)
        /\ v_attempt = v_obs.queries

C5_Witness ==
    /\ entry = "verify"
    /\ v_max >= 1
    /\ v_obs.last = "ok"
    /\ v_obs.queries = 1
    /\ v_ret.tag = "Ok"

\* C6: a poll answered with a definite status carrying an on-chain error
\* ends the verify call at once with false: no query follows it, so the
\* call never returns true after it, and when it is the first poll exactly
\* one query was issued.
C6_FastPathReject ==
    v_obs.last = "err" =>
        /\ pc = "v_done"
        /\ v_ret = [tag |-> "Ok", value |-> FALSE]
        /\ v_obs.slept = GapsSlept(v_obs.queries)
        /\ v_attempt = v_obs.queries
        /\ tx_hist[sig].verdict = "false"

C6_Witness ==
    /\ entry = "verify"
    /\ v_obs.last = "err"
    /\ v_obs.queries = 1
    /\ v_ret.tag = "Ok"

\* C7: when no poll of a verify call got a definite status, the call never
\* ends a poll by returning at once, sleeps 1s between consecutive polls,
\* and returns Ok(false) after max_retries polls or, earlier, at the first
\* loop head where more than 30s have passed.
C7_UnknownThenFalse ==
    /\ (pc \in {"v_loop", "v_sleep", "v_done"} /\ ~v_obs.definite) =>
          v_obs.queries <= v_max
    /\ (pc = "v_done" /\ ~v_obs.definite) =>
          /\ v_ret = [tag |-> "Ok", value |-> FALSE]
          /\ \/ /\ v_obs.queries = v_max
                /\ v_obs.slept = GapsSlept(v_max)
             \/ /\ v_obs.queries < v_max
                /\ elapsed > 30
                /\ v_obs.slept = v_obs.queries * 1

C7_Witness ==
    /\ pc = "v_done"
    /\ ~v_obs.definite
    /\ v_obs.last = "rpc_error"
    /\ v_obs.queries = v_max
    /\ v_max = 5
    /\ v_obs.slept = 4

\* C8: no status query is issued once more than 30s have passed since the
\* verify call began, and a loop head reached after that returns false
\* at once, leaving the remaining attempts unused.
C8_TimeCeiling ==
    [][/\ v_obs'.queries > v_obs.queries => elapsed <= 30
       /\ (pc = "v_loop" /\ elapsed > 30 /\ pc' # pc) =>
             /\ pc' = "v_done"
             /\ v_ret' = [tag |-> "Ok", value |-> FALSE]
             /\ v_obs' = v_obs]_vars

C8_Witness ==
    /\ pc = "v_done"
    /\ elapsed > 30
    /\ v_obs.queries = 2
    /\ v_max = 5
    /\ ~v_ret.value

\* C9: when the retry loop ends in its hard error, it has made exactly 3
\* attempts with 2 pauses of 2s (none after the third), and the error names
\* 3 attempts and the failure of the third attempt.
C9_RetryCeiling ==
    normal_result.tag = "Err" =>
        /\ calls.builds = 3
        /\ attempt = 3
        /\ calls.delays = 2
        /\ calls.delay_time = 4
        /\ normal_result.attempts = 3
        /\ attempt_errors.attempt = 3
        /\ normal_result.last = attempt_errors.error
        /\ last_error = attempt_errors.error

C9_Witness ==
    /\ normal_result.tag = "Err"
    /\ normal_result.last = ErrText("verification_failed", Some(2))
    /\ tx_hist[1].attempt = 1
    /\ tx_hist[2].attempt = 3

\* C10: when attempt k is confirmed the retry loop returns success with
\* attempt_count k, no fallback flag and the signature of attempt k's
\* transaction, and nothing of an attempt k+1 happens: k builds, k-1
\* pauses, no later transaction.
C10_EarlySuccessHalts ==
    normal_result.tag = "Ok" =>
        LET k == normal_result.attempt_count
        IN  /\ normal_result.success
            /\ k \in 1..3
            /\ attempt = k
            /\ ~normal_result.used_jupiter_fallback
            /\ normal_result.error = None
            /\ normal_result.signature = Some(ntx)
            /\ tx_hist[ntx].attempt = k
            /\ tx_hist[ntx].verdict = "true"
            /\ calls.builds = k
            /\ calls.sends <= k
            /\ calls.delays = k - 1
            /\ calls.aggregator = 0
            /\ pc \in {"n_returned", "done"}

C10_Witness ==
    /\ pc = "done"
    /\ normal_result.tag = "Ok"
    /\ normal_result.attempt_count = 2
    /\ attempt_errors.attempt = 1
    /\ calls.builds = 2


\* the fallback has begun: it is running or has returned, or one of its
\* calls has been made
FallbackBegun ==
    \/ pc \in {"j_resolve", "j_balance", "j_sell", "j_returned"}
    \/ jup_result # NoReturn
    \/ calls.balance_queries > 0
    \/ calls.aggregator > 0
    \/ \E t \in TxIds : tx_hist[t].attempt = MAX_RETRIES + 1

\* C11: a venue attempt N+1 makes its build and its submission only after
\* attempt N was rejected with its error recorded as the last error and
\* with no verification left running; an attempt is never started after a
\* confirmed one; and the fallback begins only after all three venue
\* attempts were made and rejected.
C11_AttemptsInOrder ==
    /\ [][(calls'.builds > calls.builds \/ calls'.sends > calls.sends) =>
            /\ attempt = IF calls'.builds > calls.builds
                         THEN calls.builds + 1 ELSE calls.builds
            /\ attempt_errors.attempt = attempt - 1
            /\ attempt > 1 => attempt_errors.error = last_error
            /\ v_ret = NoReturn
            /\ v_obs = NoVerifyObs
            /\ normal_result = NoReturn
            /\ \A t \in 1..ntx : /\ tx_hist[t].attempt < attempt
                                 /\ tx_hist[t].verdict # "true"
            /\ ~FallbackBegun]_vars
    /\ [](FallbackBegun =>
            /\ normal_result.tag = "Err"
            /\ normal_result.attempts = MAX_RETRIES
            /\ normal_result.last = attempt_errors.error
            /\ attempt_errors.attempt = MAX_RETRIES
            /\ calls.builds = MAX_RETRIES
            /\ \A t \in TxIds : tx_hist[t].attempt \in 1..MAX_RETRIES =>
                                   tx_hist[t].verdict # "true")

C11_Witness ==
    /\ pc = "j_resolve"
    /\ calls.builds = 3
    /\ calls.sends = 2
    /\ tx_hist[1].verdict = "false"
    /\ tx_hist[2].attempt = 3
    /\ attempt_errors.error.kind = "parse_failed"


\* C12: after the retry loop has used up its three attempts the fallback is
\* invoked, and only once: one balance query, one aggregator call and one
\* aggregator transaction at most, and its return is taken once.  When it
\* succeeds the outcome has success == true, the signature the fallback
\* returned, used_jupiter_fallback == true and attempt_count == 4.
C12_FallbackOnce ==
    /\ [](/\ calls.aggregator <= 1
          /\ calls.balance_queries <= 1
          /\ Cardinality({t \in TxIds : tx_hist[t].attempt = 4}) <= 1
          /\ pc = "done" /\ normal_result.tag = "Err" =>
                jup_result # NoReturn
          /\ pc = "done" /\ jup_result.tag = "Ok" =>
                /\ result = [tag |-> "Ok", success |-> TRUE,
                             signature |-> Some(jup_result.value),
                             error |-> None,
                             used_jupiter_fallback |-> TRUE,
                             attempt_count |-> 4]
                /\ tx_hist[jup_result.value].attempt = 4
                /\ tx_hist[jup_result.value].verdict = "true"
                /\ calls.aggregator = 1)
    /\ [][jup_result # NoReturn => jup_result' = jup_result]_vars

C12_Witness ==
    /\ pc = "done"
    /\ normal_result.tag = "Err"
    /\ jup_result.tag = "Ok"
    /\ result.success
    /\ result.attempt_count = 4
    /\ calls.aggregator = 1


\* C13: when the retry loop returns a successful outcome the entry point
\* returns that very outcome (the same signature, attempt_count in 1..3,
\* used_jupiter_fallback == false, no error), and nothing of the fallback
\* happens: no balance query, no aggregator call.
C13_SuccessPassedThrough ==
    /\ normal_result.tag = "Ok" =>
          /\ ~FallbackBegun
          /\ calls.balance_queries = 0
          /\ calls.aggregator = 0
    /\ pc = "done" /\ normal_result.tag = "Ok" =>
          /\ result = normal_result
          /\ result.success
          /\ result.signature = normal_result.signature
          /\ result.signature # None
          /\ result.attempt_count \in 1..3
          /\ ~result.used_jupiter_fallback
          /\ result.error = None

C13_Witness ==
    /\ pc = "done"
    /\ normal_result.tag = "Ok"
    /\ result.attempt_count = 3
    /\ result.signature = Some(2)
    /\ calls.balance_queries = 0


\* the steps of the fallback that can fail
FallbackErrors ==
    {"wallet_pubkey_failed", "invalid_mint", "token_account_failed",
     "token_account_not_found", "amount_parse_failed", "no_tokens_to_sell",
     "jupiter_sell_failed", "parse_failed", "jupiter_verification_failed"}

\* C14: when the fallback fails, at whichever of its steps, the outcome has
\* success == false, no signature, used_jupiter_fallback == true,
\* attempt_count == 4 and an error that embeds the error the fallback
\* returned, which is the error of the fallback's step that failed and not
\* the last error the retry loop recorded.
C14_FallbackFailureShape ==
    /\ jup_result.tag = "Err" =>
          /\ jup_result.error.kind \in FallbackErrors
          /\ jup_result.error.sig = None
    /\ pc = "done" /\ jup_result.tag = "Err" =>
          /\ result = [tag |-> "Ok", success |-> FALSE, signature |-> None,
                       error |-> Some([kind |-> "all_sell_attempts_failed",
                                       last |-> jup_result.error]),
                       used_jupiter_fallback |-> TRUE,
                       attempt_count |-> 4]
          /\ normal_result.tag = "Err"
          /\ normal_result.last = last_error

C14_Witness ==
    /\ pc = "done"
    /\ jup_result.tag = "Err"
    /\ jup_result.error.kind = "jupiter_verification_failed"
    /\ last_error.kind = "build_failed"
    /\ ~result.success


\* C15: when the holding account does not exist or its balance is zero the
\* fallback fails with its own error before the aggregator is invoked: no
\* aggregator call, no aggregator transaction, no verification and no
\* signature; the aggregator is only ever called with a balance of at least
\* one unit.
C15_ZeroBalanceGuard ==
    /\ calls.aggregator > 0 => balance >= 1
    /\ calls.balance_queries > 0 /\ pc # "j_balance" /\ balance = 0 =>
          /\ jup_result.tag = "Err"
          /\ jup_result.error.kind \in
                {"token_account_failed", "token_account_not_found",
                 "amount_parse_failed", "no_tokens_to_sell"}
    /\ (/\ jup_result.tag = "Err"
        /\ jup_result.error.kind \in
              {"token_account_not_found", "no_tokens_to_sell"}) =>
          /\ balance = 0
          /\ calls.aggregator = 0
          /\ caller # "jupiter"
          /\ \A t \in TxIds : tx_hist[t].attempt # MAX_RETRIES + 1
          /\ pc = "done" => result.signature = None /\ ~result.success

C15_Witness ==
    /\ pc = "done"
    /\ jup_result.tag = "Err"
    /\ jup_result.error.kind = "no_tokens_to_sell"
    /\ calls.balance_queries = 1
    /\ calls.aggregator = 0
    /\ ntx = 3


\* floor(balance * amount_in), with amount_in = a / AmountUnit
FloorOfProduct(token_amount, a) == (token_amount * a) \div AmountUnit

\* C16: for every positive balance and every amount_in the amount the
\* fallback computes is the full balance when amount_in >= 1.0 and
\* floor(balance * amount_in) when 0 <= amount_in < 1.
C16_SellSize ==
    pc = "amount_done" =>
        amount_to_sell = IF amount_in >= AmountUnit
                         THEN balance
                         ELSE FloorOfProduct(balance, amount_in)


\* C17: every venue attempt uses the one builder and the one submission of
\* the trade's venue: PumpFun the PumpFun builder and the normal broadcast,
\* PumpSwap the PumpSwap builder and the normal broadcast, RaydiumLaunchpad
\* the Raydium builder and the zeroslot broadcast, and any other venue what
\* PumpFun uses.
C17_VenueDispatch ==
    LET route == CASE dex = "PumpFun" -> <<"pump_fun", "normal">>
                   [] dex = "PumpSwap" -> <<"pump_swap", "normal">>
                   [] dex = "RaydiumLaunchpad" ->
                          <<"raydium_launchpad", "zeroslot">>
                   [] OTHER -> <<"pump_fun", "normal">>
    IN  /\ calls.builders = IF calls.builds > 0 THEN {route[1]} ELSE {}
        /\ calls.landings = IF calls.sends > 0 THEN {route[2]} ELSE {}

C17_Witness ==
    /\ dex = "Other"
    /\ calls.builds = 3
    /\ calls.sends = 2
    /\ calls.builders = {"pump_fun"}
    /\ calls.landings = {"normal"}
    /\ pc = "done"


\* the steps of one venue attempt, in the order the code takes them
AttemptSteps == <<"build", "blockhash", "send", "parse", "verify">>

\* the number of steps an attempt has taken when it fails with this error
StepsBefore(kind) ==
    CASE kind = "build_failed" -> 1
      [] kind = "no_blockhash" -> 2
      [] kind = "send_failed" -> 3
      [] kind = "no_signature_returned" -> 3
      [] kind = "parse_failed" -> 4
      [] kind = "verification_failed" -> 5

\* C18: within one venue attempt the steps run in the order build,
\* blockhash, submission, parse of the first identifier, verification, and a
\* failure ends the attempt with no later step: after a build error no
\* blockhash fetch and no submission, with no blockhash no submission, with
\* no identifier or a malformed first identifier no verification; the loop
\* then still goes on to the pause before the next attempt.
C18_StepsInOrder ==
    /\ Len(calls.steps) <= Len(AttemptSteps)
    /\ \A i \in 1..Len(calls.steps) : calls.steps[i] = AttemptSteps[i]
    /\ calls.blockhashes <= calls.builds
    /\ calls.sends <= calls.blockhashes
    /\ attempt >= 1 /\ attempt_errors.attempt = attempt =>
          /\ Len(calls.steps) = StepsBefore(attempt_errors.error.kind)
          /\ attempt < MAX_RETRIES => pc = "retry_delay"
    /\ caller = "normal" /\ pc \in {"v_loop", "v_sleep", "v_done"} =>
          calls.steps = AttemptSteps

C18_Witness ==
    /\ pc = "retry_delay"
    /\ attempt = 2
    /\ attempt_errors.attempt = 2
    /\ attempt_errors.error.kind = "no_signature_returned"
    /\ calls.steps = <<"build", "blockhash", "send">>
    /\ calls.builds = 2
    /\ calls.blockhashes = 1


\* C19: whenever the fallback invokes the aggregator the amount it passes
\* is at least 1 and at most the balance it has just read.
C19_AmountWithinBalance ==
    calls.aggregator > 0 =>
        /\ amount_to_sell >= 1
        /\ amount_to_sell <= balance


\* transactions whose verification has been started
VerifiedTxs ==
    {t \in TxIds : \/ tx_hist[t].verdict # "none"
                   \/ t = sig /\ pc \in {"v_loop", "v_sleep", "v_done"}}

\* C20: every call of the workflow returns, given that each external call
\* returns, and it makes at most 3 venue submissions, 1 aggregator call,
\* 2 retry pauses and 20 status queries: at most 5 in each verification, of
\* at most 4 transactions.
C20_TerminatesWithinBudget ==
    /\ [](/\ calls.builds <= 3
          /\ calls.sends <= 3
          /\ calls.aggregator <= 1
          /\ calls.delays <= 2
          /\ entry = "sell" =>
                /\ ntx <= 4
                /\ Cardinality(VerifiedTxs) <= 4
                /\ v_obs.queries <= 5
                /\ 5 * Cardinality(VerifiedTxs) <= 20)
    /\ (entry = "sell") ~> (pc = "done" /\ result # NoReturn)
    /\ (entry = "verify") ~> (pc = "v_done" /\ v_ret # NoReturn)

C20_Witness ==
    /\ pc = "done"
    /\ calls.sends = 3
    /\ calls.aggregator = 1
    /\ calls.delays = 2
    /\ Cardinality(VerifiedTxs) = 4
    /\ ntx = 4

====
